---- MODULE Spec2Model ----
(***************************************************************************)
(* Device diagnostics (src/services/deviceService.ts): the GPU prober, the *)
(* weak-GPU classifier, the physical-core estimator and the score/tier     *)
(* aggregation of getDiagnosticData, the CPU benchmark                      *)
(* (runCPUStatsBenchmark) and the six concurrently started signals.        *)
(*                                                                         *)
(* Encodings.  A nullable value is <<>> (null/undefined) or <<v>>.         *)
(* Device memory is counted in quarters of a GB, so that the reportable    *)
(* values 0.25 and 0.5 are integers.  Strings are TLA+ strings; toLowerCase *)
(* and includes work character by character.  Benchmark durations are     *)
(* whole milliseconds; means, medians and thresholds are exact fractions   *)
(* [num, den], and the coefficient of variation is kept as its square.     *)
(***************************************************************************)
EXTENDS Integers, Sequences, FiniteSets, TLC

VARIABLES
  dev,           \* the environment an assessment reads
  sig,           \* the six values destructured from Promise.all
  pc,            \* position of getDiagnosticData
  result,        \* the DiagnosticResult of getDiagnosticData
  tasks,         \* state of each of the six entries of the Promise.all array
  bpc,           \* position of runCPUStatsBenchmark
  sched,         \* facility that runs runMultipleTests
  round,         \* loop counter i of runMultipleTests
  duration,      \* value of the last runSingleBenchmark
  results,       \* the array results of runMultipleTests
  verdict,       \* settled value of the promise of runCPUStatsBenchmark
  resolveCalls,  \* calls of resolve made by runMultipleTests
  stats,         \* locals of the statistical analysis
  frame,         \* locals and promise of estimateRefreshRate
  runs,          \* the benchmark runs of overlapping assessments
  app            \* state of the App component

assessVars == <<dev, sig, pc, result, tasks>>
benchVars == <<bpc, sched, round, duration, results, verdict, resolveCalls, stats>>
otherVars == <<frame, runs, app>>
vars == <<dev, sig, pc, result, tasks, bpc, sched, round, duration, results,
          verdict, resolveCalls, stats, frame, runs, app>>

-----------------------------------------------------------------------------
(* Nullable values *)

Null == <<>>
Some(v) == <<v>>
IsNull(o) == o = <<>>
Val(o) == o[1]

-----------------------------------------------------------------------------
(* The strings a device reports *)

\* navigator.platform, navigator.vendor, navigator.userAgent of common browsers,
\* and of some that send mixed signals.
WindowsChrome ==
  [platform |-> Some("Win32"), vendor |-> Some("Google Inc."),
   userAgent |-> Some("Mozilla/5.0 (Windows NT 10.0; Win64; x64) AppleWebKit/537.36 (KHTML, like Gecko) Chrome/120.0.0.0 Safari/537.36")]
WindowsFirefox ==
  [platform |-> Some("Win32"), vendor |-> Some(""),
   userAgent |-> Some("Mozilla/5.0 (Windows NT 10.0; Win64; x64; rv:121.0) Gecko/20100101 Firefox/121.0")]
MacSafari ==
  [platform |-> Some("MacIntel"), vendor |-> Some("Apple Computer, Inc."),
   userAgent |-> Some("Mozilla/5.0 (Macintosh; Intel Mac OS X 10_15_7) AppleWebKit/605.1.15 (KHTML, like Gecko) Version/17.0 Safari/605.1.15")]
MacFirefox ==
  [platform |-> Some("MacIntel"), vendor |-> Some(""),
   userAgent |-> Some("Mozilla/5.0 (Macintosh; Intel Mac OS X 10.15; rv:121.0) Gecko/20100101 Firefox/121.0")]
MacArmWebView ==
  [platform |-> Some("MacIntel"), vendor |-> Some("Apple Computer, Inc."),
   userAgent |-> Some("Mozilla/5.0 (Macintosh; ARM Mac OS X 14_0) AppleWebKit/605.1.15 (KHTML, like Gecko)")]
MacNoArch ==
  [platform |-> Some("MacPPC"), vendor |-> Some("Apple Computer, Inc."),
   userAgent |-> Some("Mozilla/5.0 (Macintosh; U; PPC Mac OS X; en) AppleWebKit/125.2 (KHTML, like Gecko) Safari/125.8")]
IPhoneSafari ==
  [platform |-> Some("iPhone"), vendor |-> Some("Apple Computer, Inc."),
   userAgent |-> Some("Mozilla/5.0 (iPhone; CPU iPhone OS 17_0 like Mac OS X) AppleWebKit/605.1.15 (KHTML, like Gecko) Version/17.0 Mobile/15E148 Safari/604.1")]
AndroidChrome ==
  [platform |-> Some("Linux armv8l"), vendor |-> Some("Google Inc."),
   userAgent |-> Some("Mozilla/5.0 (Linux; Android 13; Pixel 7) AppleWebKit/537.36 (KHTML, like Gecko) Chrome/120.0.0.0 Mobile Safari/537.36")]
LinuxFirefox ==
  [platform |-> Some("Linux x86_64"), vendor |-> Some(""),
   userAgent |-> Some("Mozilla/5.0 (X11; Linux x86_64; rv:121.0) Gecko/20100101 Firefox/121.0")]
WindowsPhoneIE ==
  [platform |-> Some("Win32"), vendor |-> Some(""),
   userAgent |-> Some("Mozilla/5.0 (Mobile; Windows Phone 8.1; Android 4.0; ARM; Trident/7.0; Touch; rv:11.0; IEMobile/11.0; NOKIA; Lumia 520) like iPhone OS 7_0_3 Mac OS X AppleWebKit/537 (KHTML, like Gecko) Mobile Safari/537")]
WindowsSpoofingMac ==
  [platform |-> Some("Win32"), vendor |-> Some("Google Inc."),
   userAgent |-> Some("Mozilla/5.0 (Macintosh; Intel Mac OS X 10_15_7) AppleWebKit/537.36 (KHTML, like Gecko) Chrome/120.0.0.0 Safari/537.36")]
NoSignals ==
  [platform |-> Null, vendor |-> Null, userAgent |-> Null]

Browsers ==
  {WindowsChrome, WindowsFirefox, MacSafari, MacFirefox, MacArmWebView, MacNoArch,
   IPhoneSafari, AndroidChrome, LinuxFirefox, WindowsPhoneIE, WindowsSpoofingMac, NoSignals}

\* UNMASKED_RENDERER_WEBGL strings.
Renderers ==
  {"", "Google SwiftShader", "SWIFTSHADER",
   "ANGLE (Google, Vulkan 1.3.0 (SwiftShader Device (Subzero) (0x0000C0DE)), SwiftShader driver)",
   "llvmpipe (LLVM 15.0.7, 256 bits)", "Microsoft Basic Render Driver",
   "Software Renderer", "Mesa OffScreen (CPU)",
   "NVIDIA GeForce RTX", "AMD Radeon Pro 5500M OpenGL Engine", "Apple M1",
   "Intel(R) UHD Graphics", "Mali-G78", "Adreno (TM) 530", "Adreno (TM) 650",
   "PowerVR Rogue GE8320"}

ReportedStrings ==
  Renderers \cup UNION {{Val(b.platform), Val(b.vendor), Val(b.userAgent)} :
                         b \in Browsers \ {NoSignals}}

-----------------------------------------------------------------------------
(* Strings *)

UpperChars == "ABCDEFGHIJKLMNOPQRSTUVWXYZ"
LowerChars == "abcdefghijklmnopqrstuvwxyz"

CharAt(s, i) == SubSeq(s, i, i)

UpperSet == {CharAt(UpperChars, k) : k \in 1..26}

LowerMap ==
  [c \in UpperSet |-> CharAt(LowerChars, CHOOSE k \in 1..26 : CharAt(UpperChars, k) = c)]

lowerChar(c) == IF c \in UpperSet THEN LowerMap[c] ELSE c

\* Lower-casing of ASCII text: every character is mapped, one half of the
\* string after the other.
RECURSIVE lowerString(_)
lowerString(s) ==
  IF Len(s) = 0 THEN ""
  ELSE IF Len(s) = 1 THEN lowerChar(s)
  ELSE LET h == Len(s) \div 2
       IN lowerString(SubSeq(s, 1, h)) \o lowerString(SubSeq(s, h + 1, Len(s)))

\* The lower-cased form of every reported string, computed once.
LowerCaseOf == [s \in ReportedStrings |-> lowerString(s)]

\* String.prototype.toLowerCase
toLowerCase(s) == IF s \in ReportedStrings THEN LowerCaseOf[s] ELSE lowerString(s)

includes(s, pattern) ==
  \E i \in 1..(Len(s) - Len(pattern) + 1) : SubSeq(s, i, i + Len(pattern) - 1) = pattern

-----------------------------------------------------------------------------
(* CONFIG and the pattern lists *)

QuartersPerGB == 4
GB(n) == n * QuartersPerGB

lowCPUCoresThreshold == 6
highCPUCoresThreshold == 8
lowMemoryThreshold == 4
highMemoryThreshold == 8
minTextureSize == 4096
minVertexUniformVectors == 1024
slowDeviceThreshold == 8
fallbackCores == 2

WEAK_GPU_PATTERNS == {"intel", "mali", "adreno 3", "adreno 4", "adreno 5", "powervr"}

SOFTWARE_RENDERER_PATTERNS ==
  {"microsoft basic render driver", "software renderer", "llvmpipe", "mesa llvmpipe",
   "swiftshader", "software rasterizer", "chromium software renderer",
   "software rendering", "cpu"}

-----------------------------------------------------------------------------
(* detectGPU and checkIsWeakGPU *)

\* The renderer test of detectGPU: a truthy renderer that names a software
\* rasterizer, or that comes with suspiciously small limits.
\* isSoftwareRenderer matching the renderer as reported, without lower-casing it.
isSoftwareRenderer_CaseSensitive(renderer) ==
  \E pattern \in SOFTWARE_RENDERER_PATTERNS : includes(renderer, pattern)

isSoftwareRenderer(renderer) ==
  \E pattern \in SOFTWARE_RENDERER_PATTERNS : includes(toLowerCase(renderer), pattern)

isLikelySoftware(maxTextureSize, maxVertexUniformVectors) ==
  maxTextureSize < 2048 \/ maxVertexUniformVectors < 256

\* gl.state is "none" (getContext returns null for both context names),
\* "throws" (context creation or a query raises), or "ok" with what the
\* context reports.  rendererString/vendorString are readable only through the
\* WEBGL_debug_renderer_info extension.
detectGPU(gl) ==
  IF gl.state = "none" \/ gl.state = "throws" THEN Null
  ELSE
    LET maxTextureSize == gl.maxTextureSize
        maxVertexUniformVectors == gl.maxVertexUniformVectors
        renderer == IF gl.debugInfo THEN Some(gl.rendererString) ELSE Null
        vendor == IF gl.debugInfo THEN Some(gl.vendorString) ELSE Null
        truthy == ~IsNull(renderer) /\ Val(renderer) # ""
    IN IF truthy /\ (isSoftwareRenderer(Val(renderer))
                       \/ isLikelySoftware(maxTextureSize, maxVertexUniformVectors))
         THEN Null
         ELSE Some([maxTextureSize |-> maxTextureSize,
                    maxVertexUniformVectors |-> maxVertexUniformVectors,
                    renderer |-> renderer,
                    vendor |-> vendor])

isKnownWeakGPU(rendererLower) ==
  \E pattern \in WEAK_GPU_PATTERNS : includes(rendererLower, pattern)

\* checkIsWeakGPU matching the renderer as reported, without lower-casing it.
checkIsWeakGPU_CaseSensitive(gpu) ==
  IF IsNull(gpu) THEN TRUE
  ELSE
    LET g == Val(gpu)
        renderer == IF IsNull(g.renderer) THEN "" ELSE Val(g.renderer)
    IN \/ g.maxTextureSize < minTextureSize
       \/ g.maxVertexUniformVectors < minVertexUniformVectors
       \/ isKnownWeakGPU(renderer)

checkIsWeakGPU(gpu) ==
  IF IsNull(gpu) THEN TRUE
  ELSE
    LET g == Val(gpu)
        isLowTextureSize == g.maxTextureSize < minTextureSize
        isLowVertexUniforms == g.maxVertexUniformVectors < minVertexUniformVectors
        renderer == IF IsNull(g.renderer) THEN "" ELSE toLowerCase(Val(g.renderer))
    IN isLowTextureSize \/ isLowVertexUniforms \/ isKnownWeakGPU(renderer)

-----------------------------------------------------------------------------
(* The signal readers awaited by getDiagnosticData *)

\* battery.state is "absent" (no getBattery), "throws" (getBattery rejects)
\* or "ok" with levelPercent and charging: BatteryManager.level in
\* hundredths, so that battery.level * 100 is levelPercent.
getBatteryInfo(battery) ==
  IF battery.state = "absent" \/ battery.state = "throws"
    THEN [level |-> Null, charging |-> Null, supported |-> FALSE]
    ELSE [level |-> Some(battery.levelPercent), charging |-> Some(battery.charging),
          supported |-> TRUE]

\* storage.state is "absent", "throws" or "ok" with the estimate, in whole GB.
getStorageInfo(storage) ==
  IF storage.state = "absent" \/ storage.state = "throws"
    THEN [quota |-> Null, usage |-> Null, supported |-> FALSE]
    ELSE [quota |-> IF storage.quota # 0 THEN Some(storage.quota) ELSE Null,
          usage |-> IF storage.usage # 0 THEN Some(storage.usage) ELSE Null,
          supported |-> TRUE]

\* connection.state is "absent" or "ok" with the NetworkInformation fields.
getConnectionInfo(connection) ==
  IF connection.state = "absent"
    THEN [type |-> Null, effectiveType |-> Null, downlink |-> Null, rtt |-> Null]
    ELSE [type |-> connection.type, effectiveType |-> connection.effectiveType,
          downlink |-> connection.downlink, rtt |-> connection.rtt]

-----------------------------------------------------------------------------
(* Platform classification and the physical-core estimate *)

\* navigator.x?.toLowerCase() || ''
lowerOrEmpty(o) == IF IsNull(o) THEN "" ELSE toLowerCase(Val(o))

isWindows(nav) ==
  LET platform == lowerOrEmpty(nav.platform)
      userAgent == lowerOrEmpty(nav.userAgent)
  IN includes(platform, "win") \/ includes(userAgent, "windows")

isMac(nav) ==
  includes(lowerOrEmpty(nav.platform), "mac") \/ includes(lowerOrEmpty(nav.userAgent), "mac os")

isApple(nav) ==
  includes(lowerOrEmpty(nav.vendor), "apple") \/ includes(lowerOrEmpty(nav.userAgent), "apple")

isARM(nav) ==
  LET userAgent == lowerOrEmpty(nav.userAgent)
  IN \/ includes(userAgent, "arm")
     \/ includes(userAgent, "aarch64")
     \/ includes(userAgent, "apple m")
     \/ includes(userAgent, "apple silicon")

isIntelMac(nav) ==
  LET userAgent == lowerOrEmpty(nav.userAgent)
  IN \/ includes(userAgent, "intel")
     \/ includes(userAgent, "x86_64")
     \/ includes(userAgent, "x86-64")
     \/ includes(userAgent, "intel mac")

isAppleSilicon(nav) ==
  IF isMac(nav) /\ isApple(nav)
    THEN IF isARM(nav) THEN TRUE
         ELSE IF isIntelMac(nav) THEN FALSE
         ELSE TRUE
    ELSE FALSE

\* estimatePhysicalCores with the Windows halving tried before the low-count
\* and odd-count rules.
estimatePhysicalCores_HalveFirst(nav, logicalCores) ==
  IF isAppleSilicon(nav) THEN logicalCores
  ELSE IF isWindows(nav) THEN logicalCores \div 2
  ELSE IF logicalCores <= 2 THEN logicalCores
  ELSE IF logicalCores % 2 = 1 THEN logicalCores
  ELSE IF logicalCores >= 16 /\ logicalCores % 4 = 0 THEN logicalCores \div 2
  ELSE logicalCores

\* estimatePhysicalCores without the odd-count rule.
estimatePhysicalCores_NoOddRule(nav, logicalCores) ==
  IF isAppleSilicon(nav) THEN logicalCores
  ELSE IF logicalCores <= 2 THEN logicalCores
  ELSE IF isWindows(nav) THEN logicalCores \div 2
  ELSE IF logicalCores >= 16 /\ logicalCores % 4 = 0 THEN logicalCores \div 2
  ELSE logicalCores

\* estimatePhysicalCores applying the conservative rule to Windows as well.
estimatePhysicalCores_NoWindowsRule(nav, logicalCores) ==
  IF isAppleSilicon(nav) THEN logicalCores
  ELSE IF logicalCores <= 2 THEN logicalCores
  ELSE IF logicalCores % 2 = 1 THEN logicalCores
  ELSE IF logicalCores >= 16 /\ logicalCores % 4 = 0 THEN logicalCores \div 2
  ELSE logicalCores

estimatePhysicalCores(nav, logicalCores) ==
  IF isAppleSilicon(nav) THEN logicalCores
  ELSE IF logicalCores <= 2 THEN logicalCores
  ELSE IF logicalCores % 2 = 1 THEN logicalCores
  ELSE IF isWindows(nav) THEN logicalCores \div 2
  ELSE IF logicalCores >= 16 /\ logicalCores % 4 = 0 THEN logicalCores \div 2
  ELSE logicalCores

\* navigator.hardwareConcurrency || CONFIG.fallbackCores
logicalCoresOf(nav) ==
  IF IsNull(nav.hardwareConcurrency) \/ Val(nav.hardwareConcurrency) = 0
    THEN fallbackCores
    ELSE Val(nav.hardwareConcurrency)

isAppleSiliconMac(nav) == isMac(nav) /\ isApple(nav)

\* The Mac special case around estimatePhysicalCores.
physicalCores(nav) ==
  LET logicalCores == logicalCoresOf(nav)
  IN IF isAppleSiliconMac(nav)
       THEN IF logicalCores \in {16, 12, 10, 8}
              THEN logicalCores
              ELSE estimatePhysicalCores(nav, logicalCores)
       ELSE estimatePhysicalCores(nav, logicalCores)

-----------------------------------------------------------------------------
(* Score and tier *)

\* navigator.deviceMemory || null
rawMemoryOf(nav) ==
  IF IsNull(nav.deviceMemory) \/ Val(nav.deviceMemory) = 0 THEN Null ELSE nav.deviceMemory

\* capabilities.deviceMemory || 2
effectiveMemory(deviceMemory) == IF IsNull(deviceMemory) THEN GB(2) ELSE Val(deviceMemory)

lowCPUCoresOf(cpuCores) == cpuCores < lowCPUCoresThreshold

\* lowMemoryOf with a strict comparison.
lowMemoryOf_Strict(deviceMemory) == effectiveMemory(deviceMemory) < GB(lowMemoryThreshold)

lowMemoryOf(deviceMemory) == effectiveMemory(deviceMemory) <= GB(lowMemoryThreshold)

\* battery.supported && (battery.level || 0) < 20 && !battery.charging
throttledStateOf(battery) ==
  /\ battery.supported
  /\ (IF IsNull(battery.level) THEN 0 ELSE Val(battery.level)) < 20
  /\ ~(~IsNull(battery.charging) /\ Val(battery.charging))

B2N(b) == IF b THEN 1 ELSE 0

\* scoreOf counting the battery state as a fifth point.
scoreOf_WithBattery(lowCPUCores, lowMemory, weakGPU, slowDevice, throttledState) ==
  B2N(lowCPUCores) + B2N(lowMemory) + B2N(weakGPU) + B2N(slowDevice) + B2N(throttledState)

\* The four score++ of getDiagnosticData; the battery block adds nothing.
scoreOf(lowCPUCores, lowMemory, weakGPU, slowDevice, throttledState) ==
  B2N(lowCPUCores) + B2N(lowMemory) + B2N(weakGPU) + B2N(slowDevice)

\* performanceLevelOf asking for more than the capped memory report.
performanceLevelOf_AboveCap(score, cpuCores, deviceMemory, hasWeakGPU, refreshRate) ==
  IF score >= 2 THEN "LOW"
  ELSE IF /\ cpuCores >= highCPUCoresThreshold
          /\ ~IsNull(deviceMemory) /\ Val(deviceMemory) > GB(highMemoryThreshold)
          /\ ~hasWeakGPU
          /\ refreshRate >= 90
    THEN "HIGH"
  ELSE "MEDIUM"

\* performanceLevelOf without the GPU among the criteria of HIGH.
performanceLevelOf_IgnoresGPU(score, cpuCores, deviceMemory, hasWeakGPU, refreshRate) ==
  IF score >= 2 THEN "LOW"
  ELSE IF /\ cpuCores >= highCPUCoresThreshold
          /\ ~IsNull(deviceMemory) /\ Val(deviceMemory) >= GB(highMemoryThreshold)
          /\ refreshRate >= 90
    THEN "HIGH"
  ELSE "MEDIUM"

performanceLevelOf(score, cpuCores, deviceMemory, hasWeakGPU, refreshRate) ==
  IF score >= 2 THEN "LOW"
  ELSE IF /\ cpuCores >= highCPUCoresThreshold
          /\ ~IsNull(deviceMemory) /\ Val(deviceMemory) >= GB(highMemoryThreshold)
          /\ ~hasWeakGPU
          /\ refreshRate >= 90
    THEN "HIGH"
  ELSE "MEDIUM"

\* The part of getDiagnosticData after the await: s holds the six awaited
\* signals, nav is the navigator it reads.
aggregate(nav, s) ==
  LET rawMemory == rawMemoryOf(nav)
      capabilities ==
        [cpuCores |-> physicalCores(nav),
         deviceMemory |-> rawMemory,
         isMemoryCapped |-> (~IsNull(rawMemory) /\ Val(rawMemory) = GB(8)),
         gpu |-> s.gpu,
         platform |-> nav.platform,
         userAgent |-> nav.userAgent,
         vendor |-> nav.vendor,
         connectionType |-> s.conn.type,
         connectionEffectiveType |-> s.conn.effectiveType,
         connectionDownlink |-> s.conn.downlink,
         connectionRtt |-> s.conn.rtt,
         battery |-> s.battery,
         storage |-> s.storage,
         refreshRate |-> s.refreshRate]
      hasWeakGPU == checkIsWeakGPU(s.gpu)
      lowCPUCores == lowCPUCoresOf(capabilities.cpuCores)
      lowMemory == lowMemoryOf(capabilities.deviceMemory)
      slowDevice == s.slowDeviceResult.isSlow
      throttledState == throttledStateOf(s.battery)
      score == scoreOf(lowCPUCores, lowMemory, hasWeakGPU, slowDevice, throttledState)
  IN [performanceLevel |->
        performanceLevelOf(score, capabilities.cpuCores, capabilities.deviceMemory,
                           hasWeakGPU, s.refreshRate),
      capabilities |-> capabilities,
      hasWeakGPU |-> hasWeakGPU,
      slowDevice |-> s.slowDeviceResult,
      scoreDetails |-> [lowCPUCores |-> lowCPUCores,
                        lowMemory |-> lowMemory,
                        weakGPU |-> hasWeakGPU,
                        slowDevice |-> slowDevice,
                        throttledState |-> throttledState,
                        totalScore |-> score]]

-----------------------------------------------------------------------------
(* The devices an assessment is run on *)

MaxLogicalCores == 24

\* navigator.hardwareConcurrency: missing, or a count (0 when the browser hides it).
HardwareConcurrencies == {Null} \cup {Some(n) : n \in 0..MaxLogicalCores}

\* navigator.deviceMemory in quarters of a GB: missing, 0, 0.25, 2, 4, 6, 8, 16.
DeviceMemories == {Null} \cup {Some(q) : q \in {0, 1, 8, 16, 24, 32, 64}}

mkNav(browser, hardwareConcurrency, deviceMemory) ==
  [platform |-> browser.platform, vendor |-> browser.vendor, userAgent |-> browser.userAgent,
   hardwareConcurrency |-> hardwareConcurrency, deviceMemory |-> deviceMemory]

TextureSizes == {0, 1024, 2047, 2048, 4095, 4096, 8192, 16384}
VertexUniforms == {0, 128, 255, 256, 1023, 1024, 2048, 4096}

mkGL(debugInfo, maxTextureSize, maxVertexUniformVectors, rendererString) ==
  [state |-> "ok", debugInfo |-> debugInfo, maxTextureSize |-> maxTextureSize,
   maxVertexUniformVectors |-> maxVertexUniformVectors,
   rendererString |-> rendererString, vendorString |-> "WebKit"]

NoContext == [state |-> "none"]
Absent == [state |-> "absent"]
Throws == [state |-> "throws"]

GLContexts ==
  {NoContext, Throws} \cup
  {mkGL(d, t, u, r) : d \in BOOLEAN, t \in TextureSizes, u \in VertexUniforms, r \in Renderers}

Batteries ==
  {Absent, Throws} \cup
  {[state |-> "ok", levelPercent |-> l, charging |-> c] : l \in {0, 19, 20}, c \in BOOLEAN}

Storages ==
  {Absent, Throws, [state |-> "ok", quota |-> 0, usage |-> 0],
   [state |-> "ok", quota |-> 64, usage |-> 3]}

Connections ==
  {Absent,
   [state |-> "ok", type |-> Some("wifi"), effectiveType |-> Some("4g"), downlink |-> Some(10), rtt |-> Some(50)],
   [state |-> "ok", type |-> Null, effectiveType |-> Some("2g"), downlink |-> Some(0), rtt |-> Some(2000)]}

\* What estimateRefreshRate resolves with.
RefreshRates == {0, 89, 90, 144}

\* What runCPUStatsBenchmark resolves with (duration in ms).
BenchmarkResults ==
  {[isSlow |-> FALSE, duration |-> Null], [isSlow |-> FALSE, duration |-> Some(5)],
   [isSlow |-> TRUE, duration |-> Some(20)]}

DefaultGL == mkGL(TRUE, 16384, 4096, "NVIDIA GeForce RTX")
WeakGL == mkGL(TRUE, 16384, 4096, "Intel(R) UHD Graphics")

mkDev(nav, gl, battery, storage, connection, refreshRate, benchmark) ==
  [nav |-> nav, gl |-> gl, battery |-> battery, storage |-> storage,
   connection |-> connection, refreshRate |-> refreshRate, benchmark |-> benchmark]

\* Every graphics context, on one machine.
GPUDevices ==
  {mkDev(mkNav(LinuxFirefox, Some(8), Some(32)), gl, Absent, Absent, Absent, 89,
         [isSlow |-> FALSE, duration |-> Some(5)]) : gl \in GLContexts}

\* Every browser and core count, with one graphics context.
CoreDevices ==
  {mkDev(mkNav(b, hc, Some(32)), DefaultGL, Absent, Absent, Absent, 89,
         [isSlow |-> FALSE, duration |-> Some(5)]) :
     b \in Browsers, hc \in HardwareConcurrencies}

\* Every combination of the inputs of the score, on one browser.
ScoreDevices ==
  {mkDev(mkNav(LinuxFirefox, hc, m), gl, bat, st, cn, r, bm) :
     hc \in {Null, Some(4), Some(6), Some(8)}, m \in DeviceMemories,
     gl \in {NoContext, DefaultGL, WeakGL}, bat \in Batteries,
     st \in {Absent, [state |-> "ok", quota |-> 64, usage |-> 3]},
     cn \in {Absent},
     r \in RefreshRates, bm \in BenchmarkResults}

Devices == GPUDevices \cup CoreDevices \cup ScoreDevices

-----------------------------------------------------------------------------
(* getDiagnosticData *)

NoSignal == [gpu |-> Null]
NoResult == [performanceLevel |-> "none"]

\* The entries of the array handed to Promise.all.
SignalNames ==
  {"gpu", "conn", "battery", "storage", "refreshRate", "slowDeviceResult"}
NotStarted == [state |-> "unstarted"]
Pending == [state |-> "pending"]
Fulfilled(v) == [state |-> "fulfilled", value |-> v]
Rejected == [state |-> "rejected"]
NoTasks == [name \in SignalNames |-> NotStarted]
NoVerdict == [state |-> "pending"]
NoStats == [validResults |-> <<>>]
NoSampling == [pc |-> "idle", frameCount |-> 0, elapsed |-> 0, value |-> 0]
\* The App component before its first render: useState(null),
\* useState(true), useState(true), useState(10); no interval is set and no
\* call of getDiagnosticData is pending.  result is 0 for null and else the
\* number of the refresh whose DiagnosticResult it holds.
countdownStart == 10
Unmounted ==
  [mounted |-> FALSE, loading |-> TRUE, result |-> 0,
   autoRefreshEnabled |-> TRUE, countdown |-> countdownStart,
   interval |-> FALSE, inFlight |-> {}, started |-> 0]

\* estimateRefreshRate is not sampling, no overlapping runs, no App.
OthersNotStarted ==
  /\ frame = NoSampling
  /\ runs = <<>>
  /\ app = Unmounted

\* runCPUStatsBenchmark has not been called.
BenchNotStarted ==
  /\ bpc = "idle"
  /\ sched = "none"
  /\ round = 0
  /\ duration = Null
  /\ results = <<>>
  /\ verdict = NoVerdict
  /\ resolveCalls = 0
  /\ stats = NoStats

Init ==
  /\ dev \in Devices
  /\ sig = NoSignal
  /\ pc = "start"
  /\ result = NoResult
  /\ tasks = NoTasks
  /\ BenchNotStarted
  /\ OthersNotStarted

\* The Promise.all of getDiagnosticData: the six signals are started and
\* the function resumes with all six values.
AwaitSignals ==
  /\ pc = "start"
  /\ sig' = [gpu |-> detectGPU(dev.gl),
             conn |-> getConnectionInfo(dev.connection),
             battery |-> getBatteryInfo(dev.battery),
             storage |-> getStorageInfo(dev.storage),
             refreshRate |-> dev.refreshRate,
             slowDeviceResult |-> dev.benchmark]
  /\ pc' = "joined"
  /\ UNCHANGED <<dev, result, tasks>>
  /\ UNCHANGED <<benchVars, otherVars>>

\* The rest of getDiagnosticData: capabilities, score, tier.
Aggregate ==
  /\ pc = "joined"
  /\ result' = aggregate(dev.nav, sig)
  /\ pc' = "done"
  /\ UNCHANGED <<dev, sig, tasks>>
  /\ UNCHANGED <<benchVars, otherVars>>

Next == AwaitSignals \/ Aggregate

Spec == Init /\ [][Next]_vars

-----------------------------------------------------------------------------
(* Properties *)

Done == pc = "done"

\* The logical core count the estimate starts from: the reported count, or 2
\* when it is unavailable or 0.
ReportedLogicalCores ==
  IF IsNull(dev.nav.hardwareConcurrency) \/ Val(dev.nav.hardwareConcurrency) = 0
    THEN 2
    ELSE Val(dev.nav.hardwareConcurrency)

HighCriteria ==
  /\ result.capabilities.cpuCores >= 8
  /\ ~IsNull(result.capabilities.deviceMemory)
  /\ Val(result.capabilities.deviceMemory) >= 8 * QuartersPerGB
  /\ ~result.hasWeakGPU
  /\ dev.refreshRate >= 90

\* C1: the tier is LOW iff totalScore >= 2; otherwise HIGH iff cpuCores >= 8,
\* deviceMemory known and >= 8 GB (a report of exactly 8 qualifies), GPU not
\* weak and refreshRate >= 90; otherwise MEDIUM.
C1_TierDecision ==
  Done =>
    /\ (result.performanceLevel = "LOW") <=> (result.scoreDetails.totalScore >= 2)
    /\ result.scoreDetails.totalScore < 2 =>
         ((result.performanceLevel = "HIGH") <=> HighCriteria)
    /\ (result.scoreDetails.totalScore < 2 /\ ~HighCriteria) =>
         result.performanceLevel = "MEDIUM"

\* A HIGH tier on a report of exactly 8 GB.
C1_Witness ==
  /\ Done
  /\ result.performanceLevel = "HIGH"
  /\ result.capabilities.deviceMemory = Some(8 * QuartersPerGB)
  /\ result.capabilities.isMemoryCapped

\* The memory compared with the low-memory threshold: the report if known,
\* else 2 GB.
EffectiveMemoryQuarters ==
  IF IsNull(result.capabilities.deviceMemory)
    THEN 2 * QuartersPerGB
    ELSE Val(result.capabilities.deviceMemory)

SameScore(r1, r2) ==
  /\ r1.scoreDetails.lowCPUCores = r2.scoreDetails.lowCPUCores
  /\ r1.scoreDetails.lowMemory = r2.scoreDetails.lowMemory
  /\ r1.scoreDetails.weakGPU = r2.scoreDetails.weakGPU
  /\ r1.scoreDetails.slowDevice = r2.scoreDetails.slowDevice
  /\ r1.scoreDetails.totalScore = r2.scoreDetails.totalScore

C4_UnknownMemoryNotPenalized ==
  (Done /\ IsNull(dev.nav.deviceMemory)) =>
    /\ ~result.scoreDetails.lowMemory
    /\ result.scoreDetails.totalScore =
         B2N(result.scoreDetails.lowCPUCores) + B2N(result.scoreDetails.weakGPU)
           + B2N(result.scoreDetails.slowDevice)

\* C5: the estimate stored in capabilities.cpuCores satisfies
\* 1 <= estimate <= logicalCores.
C5_EstimateWithinLogical ==
  Done =>
    /\ result.capabilities.cpuCores \in Int
    /\ 1 <= result.capabilities.cpuCores
    /\ result.capabilities.cpuCores <= ReportedLogicalCores

\* A halved estimate, and the smallest count on a platform that halves.
C5_Witness ==
  /\ Done
  /\ isWindows(dev.nav)
  /\ ReportedLogicalCores = 4
  /\ result.capabilities.cpuCores = 2

\* C6: the estimate is logicalCores unchanged when logicalCores <= 2, when
\* logicalCores is odd, or when the platform is classified as Apple silicon.
C6_EstimateUnchanged ==
  (Done /\ (\/ ReportedLogicalCores <= 2
            \/ ReportedLogicalCores % 2 = 1
            \/ isAppleSilicon(dev.nav))) =>
    result.capabilities.cpuCores = ReportedLogicalCores

\* An odd count above 2 on Windows, kept as it is.
C6_Witness ==
  /\ Done
  /\ isWindows(dev.nav) /\ ~isAppleSiliconMac(dev.nav)
  /\ ReportedLogicalCores = 7
  /\ result.capabilities.cpuCores = 7

\* The platform tag of the estimator: Mac platform with Apple vendor is tried
\* first, Windows next, anything else is ambiguous.
WindowsTagged == isWindows(dev.nav) /\ ~(isMac(dev.nav) /\ isApple(dev.nav))

Probed == pc # "start"

ContainsIgnoringCase(s, signature) == includes(toLowerCase(s), signature)

\* C8: the prober returns null whenever the renderer string contains, in any
\* case, a software-rasterizer signature, whatever the texture size and
\* vertex-uniform count.
C8_SoftwareRendererAbsent ==
  (/\ Probed
   /\ dev.gl.state = "ok"
   /\ dev.gl.debugInfo
   /\ \E signature \in {"microsoft basic render driver", "software renderer", "llvmpipe",
                        "mesa llvmpipe", "swiftshader", "software rasterizer",
                        "chromium software renderer", "software rendering", "cpu"} :
        ContainsIgnoringCase(dev.gl.rendererString, signature)) =>
    IsNull(sig.gpu)

\* A mixed-case SwiftShader renderer with the largest limits, reported absent.
C8_Witness ==
  /\ Probed
  /\ dev.gl.state = "ok"
  /\ dev.gl.debugInfo
  /\ dev.gl.rendererString = "Google SwiftShader"
  /\ dev.gl.maxTextureSize = 16384
  /\ dev.gl.maxVertexUniformVectors = 4096
  /\ IsNull(sig.gpu)

\* C9: the prober returns null whenever the texture size is below 2048 or the
\* vertex-uniform count is below 256, for every renderer value, also without
\* the debug-info extension.
C9_SmallLimitsAbsent ==
  (/\ Probed
   /\ dev.gl.state = "ok"
   /\ (dev.gl.maxTextureSize < 2048 \/ dev.gl.maxVertexUniformVectors < 256)) =>
    IsNull(sig.gpu)

\* C10: checkIsWeakGPU is true for an absent capability, and for a present one
\* exactly when maxTextureSize < 4096, maxVertexUniformVectors < 1024 or the
\* lower-cased renderer contains a weak-GPU pattern (a null renderer matches
\* none).
C10_WeakGPU ==
  Done =>
    /\ IsNull(sig.gpu) => result.hasWeakGPU
    /\ ~IsNull(sig.gpu) =>
         (result.hasWeakGPU <=>
            \/ Val(sig.gpu).maxTextureSize < 4096
            \/ Val(sig.gpu).maxVertexUniformVectors < 1024
            \/ /\ ~IsNull(Val(sig.gpu).renderer)
               /\ \E p \in {"intel", "mali", "adreno 3", "adreno 4", "adreno 5", "powervr"} :
                    ContainsIgnoringCase(Val(Val(sig.gpu).renderer), p))
    /\ dev.gl = mkGL(TRUE, 8192, 2048, "NVIDIA GeForce RTX") => ~result.hasWeakGPU
    /\ (/\ dev.gl.state = "ok" /\ dev.gl.debugInfo
        /\ dev.gl.maxTextureSize = 2048
        /\ dev.gl.rendererString = "Intel(R) UHD Graphics") => result.hasWeakGPU

\* A present capability with large limits that is weak by its renderer name only.
C10_Witness ==
  /\ Done
  /\ ~IsNull(sig.gpu)
  /\ Val(sig.gpu).maxTextureSize = 16384
  /\ Val(sig.gpu).maxVertexUniformVectors = 4096
  /\ Val(sig.gpu).renderer = Some("Intel(R) UHD Graphics")
  /\ result.hasWeakGPU

-----------------------------------------------------------------------------
(* Exact fractions *)

Rat(n, d) == [num |-> n, den |-> d]
RatLess(a, b) == a.num * b.den < b.num * a.den
RatLeq(a, b) == a.num * b.den <= b.num * a.den
RatEq(a, b) == a.num * b.den = b.num * a.den
RatTimes(a, b) == Rat(a.num * b.num, a.den * b.den)

-----------------------------------------------------------------------------
(* runCPUStatsBenchmark: the statistics of runMultipleTests *)

rounds == 11
minValidResults == 5

\* results[i] of a JavaScript array (indices from 0).
At(arr, i) == arr[i + 1]

RECURSIVE Sum(_)
Sum(arr) == IF arr = <<>> THEN 0 ELSE Head(arr) + Sum(Tail(arr))

RECURSIVE SumOfSquares(_)
SumOfSquares(arr) ==
  IF arr = <<>> THEN 0 ELSE Head(arr) * Head(arr) + SumOfSquares(Tail(arr))

\* results.sort((a, b) => a - b): the same values in ascending order.  The
\* value at position i has fewer than i values below it and at least i
\* values not above it.
sortAscending(arr) ==
  [i \in 1..Len(arr) |->
     CHOOSE v \in {arr[j] : j \in 1..Len(arr)} :
       /\ Cardinality({j \in 1..Len(arr) : arr[j] - v < 0}) < i
       /\ Cardinality({j \in 1..Len(arr) : arr[j] - v <= 0}) >= i]

\* duration !== null && duration > 0
isValidSample(d) == ~IsNull(d) /\ Val(d) > 0

\* results.length < minValidResults
tooFewResults_Inclusive(arr) == Len(arr) <= minValidResults
tooFewResults(arr) == Len(arr) < minValidResults

\* Math.floor(results.length * 0.25), Math.floor(results.length * 0.75)
q1Index(sorted) == (Len(sorted) * 25) \div 100
q3Index(sorted) == (Len(sorted) * 75) \div 100
q1(sorted) == At(sorted, q1Index(sorted))
q3(sorted) == At(sorted, q3Index(sorted))
iqr(sorted) == q3(sorted) - q1(sorted)

\* q1 - 1.5 * iqr and q3 + 1.5 * iqr
lowerBound(sorted) == Rat(2 * q1(sorted) - 3 * iqr(sorted), 2)
upperBound(sorted) == Rat(2 * q3(sorted) + 3 * iqr(sorted), 2)

\* results.filter(r => r >= lowerBound && r <= upperBound)
filteredResults_OpenInterval(sorted) ==
  SelectSeq(sorted, LAMBDA r : /\ RatLess(lowerBound(sorted), Rat(r, 1))
                               /\ RatLess(Rat(r, 1), upperBound(sorted)))
filteredResults(sorted) ==
  SelectSeq(sorted, LAMBDA r : /\ RatLeq(lowerBound(sorted), Rat(r, 1))
                               /\ RatLeq(Rat(r, 1), upperBound(sorted)))

\* filteredResults.length >= minValidResults ? filteredResults : results
validResultsOf_Unfiltered(sorted) == sorted
validResultsOf(sorted) ==
  IF Len(filteredResults(sorted)) >= minValidResults
    THEN filteredResults(sorted)
    ELSE sorted

\* The median: the middle value, or the average of the two middle values.
medianIndex(validResults) == Len(validResults) \div 2
medianDuration(validResults) ==
  IF Len(validResults) % 2 = 0
    THEN Rat(At(validResults, medianIndex(validResults) - 1)
               + At(validResults, medianIndex(validResults)), 2)
    ELSE Rat(At(validResults, medianIndex(validResults)), 1)

\* validResults.slice(trimCount, validResults.length - trimCount) and its mean
trimCount_Half(validResults) == (Len(validResults) * 50) \div 100
trimCount(validResults) == (Len(validResults) * 25) \div 100
trimmedResults(validResults) ==
  SubSeq(validResults, trimCount(validResults) + 1,
         Len(validResults) - trimCount(validResults))
trimmedMean(validResults) ==
  Rat(Sum(trimmedResults(validResults)), Len(trimmedResults(validResults)))

\* mean and population variance:
\* sum((val - mean)^2) / n = (n * sum(val^2) - sum(val)^2) / n^2
mean(validResults) == Rat(Sum(validResults), Len(validResults))
variance(validResults) ==
  Rat(Len(validResults) * SumOfSquares(validResults)
        - Sum(validResults) * Sum(validResults),
      Len(validResults) * Len(validResults))

\* coefficientOfVariation = mean > 0 ? stdDev / mean : 0, kept as its square
\* variance / mean^2 (the square root of the variance is not a fraction).
covSquared(validResults) ==
  IF mean(validResults).num > 0
    THEN Rat(variance(validResults).num,
             Sum(validResults) * Sum(validResults))
    ELSE Rat(0, 1)

\* coefficientOfVariation < p/q and coefficientOfVariation > p/q
covBelow(validResults, p, q) ==
  RatLess(covSquared(validResults), Rat(p * p, q * q))
covAbove(validResults, p, q) ==
  RatLess(Rat(p * p, q * q), covSquared(validResults))

\* stableDuration: trimmed mean below 0.1, median in both other branches
stableDuration_AlwaysMedian(validResults) == medianDuration(validResults)
stableDuration(validResults) ==
  IF covBelow(validResults, 1, 10) THEN trimmedMean(validResults)
  ELSE IF covBelow(validResults, 1, 4) THEN medianDuration(validResults)
  ELSE medianDuration(validResults)

\* adjustedThreshold: * 1.75 above 0.25, * 1.5 above 0.15
adjustedThreshold_Unadjusted(validResults) == Rat(slowDeviceThreshold, 1)
adjustedThreshold(validResults) ==
  IF covAbove(validResults, 1, 4)
    THEN RatTimes(Rat(slowDeviceThreshold, 1), Rat(7, 4))
  ELSE IF covAbove(validResults, 3, 20)
    THEN RatTimes(Rat(slowDeviceThreshold, 1), Rat(3, 2))
  ELSE Rat(slowDeviceThreshold, 1)

\* isSlow = stableDuration > adjustedThreshold
isSlow(validResults) ==
  RatLess(adjustedThreshold(validResults), stableDuration(validResults))

\* The locals of the analysis of the sorted results.
analysis(sorted) ==
  LET validResults == validResultsOf(sorted)
  IN [sorted |-> sorted,
      filteredResults |-> filteredResults(sorted),
      validResults |-> validResults,
      medianDuration |-> medianDuration(validResults),
      trimmedMean |-> trimmedMean(validResults),
      covSquared |-> covSquared(validResults),
      stableDuration |-> stableDuration(validResults),
      adjustedThreshold |-> adjustedThreshold(validResults),
      isSlow |-> isSlow(validResults)]

\* A BenchmarkResult handed to resolve.
BenchmarkResult(slow, d) ==
  [state |-> "resolved", isSlow |-> slow, duration |-> d]
InsufficientResult_Slow == BenchmarkResult(TRUE, Null)
InsufficientResult == BenchmarkResult(FALSE, Null)

\* resolve(value): only the first call settles the promise.
resolve(value) ==
  /\ verdict' = IF resolveCalls = 0 THEN value ELSE verdict
  /\ resolveCalls' = resolveCalls + 1

\* Lines 200-268: after the loop the samples are counted, sorted in place and
\* analysed, and the promise is resolved.
Analyse ==
  /\ bpc = "measured"
  /\ IF tooFewResults(results)
       THEN /\ resolve(InsufficientResult)
            /\ UNCHANGED <<results, stats>>
       ELSE /\ results' = sortAscending(results)
            /\ stats' = analysis(results')
            /\ resolve(BenchmarkResult(stats'.isSlow,
                                       Some(stats'.stableDuration)))
  /\ bpc' = "returned"
  /\ UNCHANGED <<sched, round, duration>>
  /\ UNCHANGED <<assessVars, otherVars>>

-----------------------------------------------------------------------------
(* The statistics on their own: every results array the loop can leave *)

\* Durations of valid rounds, in milliseconds.
SampleDurations == {5, 8, 10, 13, 16, 500}

\* The arrays of n samples in ascending order, none below lo.
RECURSIVE AscendingArrays(_, _)
AscendingArrays(n, lo) ==
  IF n = 0 THEN {<<>>}
  ELSE UNION {{<<v>> \o arr : arr \in AscendingArrays(n - 1, v)} :
                v \in {d \in SampleDurations : d >= lo}}

Reverse(arr) == [i \in 1..Len(arr) |-> arr[Len(arr) + 1 - i]]

\* Rounds come in any order; each multiset of samples is taken in ascending
\* and in descending order of arrival.
SampleArrays ==
  LET ascending == UNION {AscendingArrays(n, 0) : n \in 0..rounds}
  IN ascending \cup {Reverse(arr) : arr \in ascending}

\* No assessment is running.
AssessNotStarted ==
  /\ dev = mkDev(mkNav(LinuxFirefox, Some(8), Some(32)), DefaultGL, Absent,
                 Absent, Absent, 89, [isSlow |-> FALSE, duration |-> Null])
  /\ sig = NoSignal
  /\ pc = "start"
  /\ result = NoResult
  /\ tasks = NoTasks

\* The loop of runMultipleTests has ended with some of its rounds valid.
InitStats ==
  /\ AssessNotStarted
  /\ bpc = "measured"
  /\ sched = "timer"
  /\ round = rounds
  /\ results \in SampleArrays
  /\ duration = IF Len(results) = rounds THEN Some(results[rounds]) ELSE Null
  /\ verdict = NoVerdict
  /\ resolveCalls = 0
  /\ stats = NoStats
  /\ OthersNotStarted

NextStats == Analyse

SpecStats == InitStats /\ [][NextStats]_vars

-----------------------------------------------------------------------------
(* runCPUStatsBenchmark as a process *)

\* What one runSingleBenchmark resolves with: null after a throw, or the
\* difference of two performance.now() readings (0 when the clock is coarse).
RoundOutcomes == {Null, Some(0), Some(10)}

\* Lines 275-281: the promise executor hands runMultipleTests to the idle
\* callback, or to a timer where requestIdleCallback is undefined.
CallBenchmark ==
  /\ bpc = "idle"
  /\ \E hasRequestIdleCallback \in BOOLEAN :
       sched' = IF hasRequestIdleCallback THEN "idle" ELSE "timer"
  /\ bpc' = "scheduled"
  /\ UNCHANGED <<round, duration, results, verdict, resolveCalls, stats>>
  /\ UNCHANGED <<assessVars, otherVars>>

\* Lines 179-182 and 269-272: runMultipleTests starts with warmupCPU, which
\* sets its 50 ms timer; a throw there is caught and resolves the default.
runMultipleTests_ReturnsOnThrow ==
  \E warmupThrows \in BOOLEAN :
    IF warmupThrows
      THEN /\ bpc' = "returned"
           /\ UNCHANGED <<verdict, resolveCalls>>
      ELSE /\ bpc' = "warmup"
           /\ UNCHANGED <<verdict, resolveCalls>>
runMultipleTests ==
  \E warmupThrows \in BOOLEAN :
    IF warmupThrows
      THEN /\ bpc' = "returned"
           /\ resolve(InsufficientResult)
      ELSE /\ bpc' = "warmup"
           /\ UNCHANGED <<verdict, resolveCalls>>

\* requestIdleCallback(runMultipleTests, { timeout: 10000 }): the browser is
\* idle or the timeout has passed.
IdleCallbackFires ==
  /\ bpc = "scheduled"
  /\ sched = "idle"
  /\ runMultipleTests
  /\ UNCHANGED <<sched, round, duration, results, stats>>
  /\ UNCHANGED <<assessVars, otherVars>>

\* setTimeout(runMultipleTests, 200)
StartTimerFires ==
  /\ bpc = "scheduled"
  /\ sched = "timer"
  /\ runMultipleTests
  /\ UNCHANGED <<sched, round, duration, results, stats>>
  /\ UNCHANGED <<assessVars, otherVars>>

\* setTimeout(resolve, 50) of warmupCPU: the loop starts with i = 0.
WarmupTimerFires ==
  /\ bpc = "warmup"
  /\ bpc' = "round"
  /\ round' = 0
  /\ UNCHANGED <<sched, duration, results, verdict, resolveCalls, stats>>
  /\ UNCHANGED <<assessVars, otherVars>>

\* Lines 189-198: one round; its sample is kept if it is valid, and a pause
\* follows every round but the last.
RunRound_PausesAfterLast ==
  /\ bpc = "round"
  /\ \E d \in RoundOutcomes :
       /\ duration' = d
       /\ results' = IF isValidSample(d) THEN Append(results, Val(d))
                                         ELSE results
  /\ IF round < rounds
       THEN bpc' = "pause" /\ round' = round
       ELSE bpc' = "measured" /\ round' = round + 1
  /\ UNCHANGED <<sched, verdict, resolveCalls, stats>>
  /\ UNCHANGED <<assessVars, otherVars>>
RunRound ==
  /\ bpc = "round"
  /\ \E d \in RoundOutcomes :
       /\ duration' = d
       /\ results' = IF isValidSample(d) THEN Append(results, Val(d))
                                         ELSE results
  /\ IF round < rounds - 1
       THEN bpc' = "pause" /\ round' = round
       ELSE bpc' = "measured" /\ round' = round + 1
  /\ UNCHANGED <<sched, verdict, resolveCalls, stats>>
  /\ UNCHANGED <<assessVars, otherVars>>

\* setTimeout(resolve, 100) between rounds, then i++.
PauseTimerFires ==
  /\ bpc = "pause"
  /\ bpc' = "round"
  /\ round' = round + 1
  /\ UNCHANGED <<sched, duration, results, verdict, resolveCalls, stats>>
  /\ UNCHANGED <<assessVars, otherVars>>

InitBench ==
  /\ AssessNotStarted
  /\ BenchNotStarted
  /\ OthersNotStarted

NextBench ==
  \/ CallBenchmark
  \/ IdleCallbackFires
  \/ StartTimerFires
  \/ WarmupTimerFires
  \/ RunRound
  \/ PauseTimerFires
  \/ Analyse

SpecBench == InitBench /\ [][NextBench]_vars

\* Timers and idle callbacks that are set do fire, and code that can run does.
FairSpecBench == InitBench /\ [][NextBench]_vars /\ WF_vars(NextBench)

-----------------------------------------------------------------------------
(* Properties of the benchmark *)

Returned == bpc = "returned"
Resolved == verdict.state = "resolved"
LoopCompleted == Returned /\ round = 11

\* A round that threw (null) or measured nothing (0) leaves the samples as
\* they are and the run goes on; any other round adds its sample.
RoundKeepsOnlyValid ==
  (bpc = "round" /\ bpc' # "round") =>
    IF duration' = Null \/ Val(duration') <= 0
      THEN results' = results /\ bpc' \in {"pause", "measured"}
      ELSE results' = Append(results, Val(duration'))

\* After the eleven rounds: fewer than 5 samples give { duration: null,
\* isSlow: false }, 5 or more give a duration.
VerdictBySampleCount ==
  LoopCompleted =>
    /\ Len(results) < 5 =>
         verdict = [state |-> "resolved", isSlow |-> FALSE, duration |-> Null]
    /\ Len(results) >= 5 =>
         verdict.state = "resolved" /\ verdict.duration # Null

Analysed == Resolved /\ stats # NoStats

\* n^2 times the population variance of the set used, and the square of its
\* sum: the coefficient of variation is the square root of their quotient.
UsedSpread ==
  Len(stats.validResults) * SumOfSquares(stats.validResults)
    - Sum(stats.validResults) * Sum(stats.validResults)
UsedSumSquared == Sum(stats.validResults) * Sum(stats.validResults)

\* CoV > 0.25, and 0.15 < CoV <= 0.25 (400 * spread stays small there)
VeryHighVariance == 16 * UsedSpread > UsedSumSquared
HighVariance == ~VeryHighVariance /\ 400 * UsedSpread > 9 * UsedSumSquared

\* The duration the promise resolved with.
ResolvedDuration == Val(verdict.duration)

\* C12: the verdict is slow exactly when the stable duration exceeds 18 ms,
\* or 27 ms when CoV > 0.15, or 31.5 ms when CoV > 0.25.
C12_DocumentedThresholds ==
  Analysed =>
    (verdict.isSlow <=>
       IF VeryHighVariance
         THEN 2 * ResolvedDuration.num > 63 * ResolvedDuration.den
       ELSE IF HighVariance
         THEN ResolvedDuration.num > 27 * ResolvedDuration.den
       ELSE ResolvedDuration.num > 18 * ResolvedDuration.den)

\* The quartiles of the sorted samples and the samples outside the fences.
SortedQ1 == stats.sorted[(Len(stats.sorted) \div 4) + 1]
SortedQ3 == stats.sorted[((3 * Len(stats.sorted)) \div 4) + 1]
InsideFences(r) ==
  /\ 2 * r >= 2 * SortedQ1 - 3 * (SortedQ3 - SortedQ1)
  /\ 2 * r <= 2 * SortedQ3 + 3 * (SortedQ3 - SortedQ1)
OutlierIndices ==
  {i \in 1..Len(stats.sorted) : ~InsideFences(stats.sorted[i])}

WithoutIndex(arr, i) ==
  [j \in 1..(Len(arr) - 1) |-> IF j < i THEN arr[j] ELSE arr[j + 1]]

SevenEqual == Len(results) = 7 /\ \A i \in 1..7 : results[i] = results[1]

\* C13: with at least 6 samples of which exactly one is outside the IQR
\* fences, that sample is left out of the set used and the stable duration
\* lies between the smallest and the largest remaining sample; seven samples
\* all equal to v give the duration v and isSlow = (v > base threshold).
C13_SingleOutlierExcluded ==
  Analysed =>
    /\ (Len(stats.sorted) >= 6 /\ Cardinality(OutlierIndices) = 1) =>
         LET remaining ==
               WithoutIndex(stats.sorted, CHOOSE i \in OutlierIndices : TRUE)
         IN /\ stats.validResults = remaining
            /\ remaining[1] * ResolvedDuration.den <= ResolvedDuration.num
            /\ ResolvedDuration.num
                 <= remaining[Len(remaining)] * ResolvedDuration.den
    /\ SevenEqual =>
         /\ ResolvedDuration.num = results[1] * ResolvedDuration.den
         /\ verdict.isSlow = (results[1] > slowDeviceThreshold)

\* The samples [10,10,10,10,10,10,500]: 500 is left out, the duration is 10.
C13_Witness ==
  /\ Analysed
  /\ stats.sorted = <<10, 10, 10, 10, 10, 10, 500>>
  /\ stats.validResults = <<10, 10, 10, 10, 10, 10>>
  /\ ResolvedDuration.num = 10 * ResolvedDuration.den

\* A settled BenchmarkResult: isSlow is a boolean, duration null or a number.
IsBenchmarkResult(v) ==
  /\ v.state = "resolved"
  /\ v.isSlow \in BOOLEAN
  /\ v.duration = Null \/ Val(v.duration).den > 0

\* runMultipleTests ended before its loop: the orchestration threw.
OrchestrationFailed == Returned /\ round = 0

\* C14: with timers and idle callbacks firing, every run of
\* runCPUStatsBenchmark ends resolved with a BenchmarkResult, resolve having
\* been called exactly once, through the idle callback or the timer; a failed
\* orchestration resolves { duration: null, isSlow: false }.
C14_ResolvesExactlyOnce ==
  /\ <>[](Returned /\ resolveCalls = 1 /\ IsBenchmarkResult(verdict))
  /\ [](resolveCalls <= 1)
  /\ [](OrchestrationFailed => verdict = InsufficientResult)

\* The idle callback ran runMultipleTests, warmupCPU threw, and the promise is
\* resolved with the default.
C14_Witness ==
  /\ OrchestrationFailed
  /\ sched = "idle"
  /\ resolveCalls = 1
  /\ verdict = InsufficientResult

-----------------------------------------------------------------------------
(* getDiagnosticData: the six signals one by one *)

\* Environments of an assessment, with or without requestAnimationFrame.
AssessDevices ==
  {mkDev(mkNav(b, hc, Some(32)), gl, bat, st, cn, r, bm)
     @@ [requestAnimationFrame |-> raf] :
     b \in {LinuxFirefox}, hc \in {Null, Some(8)},
     gl \in {NoContext, Throws, DefaultGL},
     bat \in {Absent, Throws, [state |-> "ok", levelPercent |-> 19, charging |-> FALSE]},
     st \in {Absent, Throws, [state |-> "ok", quota |-> 64, usage |-> 3]},
     cn \in {Absent}, r \in {90},
     bm \in {[isSlow |-> FALSE, duration |-> Null],
             [isSlow |-> TRUE, duration |-> Some(20)]},
     raf \in BOOLEAN}

\* Lines 295-302: the array is built.  detectGPU() and getConnectionInfo()
\* return at once; the four promises are created, and the executor of
\* estimateRefreshRate throws where requestAnimationFrame is undefined, which
\* rejects its promise.
StartSignals ==
  /\ pc = "start"
  /\ tasks' = [gpu |-> Fulfilled(detectGPU(dev.gl)),
               conn |-> Fulfilled(getConnectionInfo(dev.connection)),
               battery |-> Pending,
               storage |-> Pending,
               refreshRate |-> IF dev.requestAnimationFrame THEN Pending
                                                            ELSE Rejected,
               slowDeviceResult |-> Pending]
  /\ pc' = "awaiting"
  /\ UNCHANGED <<dev, sig, result>>
  /\ UNCHANGED <<benchVars, otherVars>>

\* One of the four promises settles.
SettleBattery_Propagates ==
  /\ tasks.battery.state = "pending"
  /\ tasks' = [tasks EXCEPT !.battery =
                 IF dev.battery.state = "throws"
                   THEN Rejected
                   ELSE Fulfilled(getBatteryInfo(dev.battery))]
  /\ UNCHANGED <<dev, sig, pc, result>>
  /\ UNCHANGED <<benchVars, otherVars>>
SettleBattery ==
  /\ tasks.battery.state = "pending"
  /\ tasks' = [tasks EXCEPT !.battery = Fulfilled(getBatteryInfo(dev.battery))]
  /\ UNCHANGED <<dev, sig, pc, result>>
  /\ UNCHANGED <<benchVars, otherVars>>

SettleStorage ==
  /\ tasks.storage.state = "pending"
  /\ tasks' = [tasks EXCEPT !.storage = Fulfilled(getStorageInfo(dev.storage))]
  /\ UNCHANGED <<dev, sig, pc, result>>
  /\ UNCHANGED <<benchVars, otherVars>>

SettleRefreshRate ==
  /\ tasks.refreshRate.state = "pending"
  /\ tasks' = [tasks EXCEPT !.refreshRate = Fulfilled(dev.refreshRate)]
  /\ UNCHANGED <<dev, sig, pc, result>>
  /\ UNCHANGED <<benchVars, otherVars>>

SettleBenchmark ==
  /\ tasks.slowDeviceResult.state = "pending"
  /\ tasks' = [tasks EXCEPT !.slowDeviceResult = Fulfilled(dev.benchmark)]
  /\ UNCHANGED <<dev, sig, pc, result>>
  /\ UNCHANGED <<benchVars, otherVars>>

\* await Promise.all([...]): the function resumes with the six values once
\* every entry is fulfilled.
JoinSignals_WithoutBenchmark ==
  /\ pc = "awaiting"
  /\ \A name \in SignalNames \ {"slowDeviceResult"} :
       tasks[name].state = "fulfilled"
  /\ sig' = [gpu |-> tasks.gpu.value,
             conn |-> tasks.conn.value,
             battery |-> tasks.battery.value,
             storage |-> tasks.storage.value,
             refreshRate |-> tasks.refreshRate.value,
             slowDeviceResult |->
               IF tasks.slowDeviceResult.state = "fulfilled"
                 THEN tasks.slowDeviceResult.value
                 ELSE [isSlow |-> FALSE, duration |-> Null]]
  /\ pc' = "joined"
  /\ UNCHANGED <<dev, result, tasks>>
  /\ UNCHANGED <<benchVars, otherVars>>
JoinSignals ==
  /\ pc = "awaiting"
  /\ \A name \in SignalNames : tasks[name].state = "fulfilled"
  /\ sig' = [gpu |-> tasks.gpu.value,
             conn |-> tasks.conn.value,
             battery |-> tasks.battery.value,
             storage |-> tasks.storage.value,
             refreshRate |-> tasks.refreshRate.value,
             slowDeviceResult |-> tasks.slowDeviceResult.value]
  /\ pc' = "joined"
  /\ UNCHANGED <<dev, result, tasks>>
  /\ UNCHANGED <<benchVars, otherVars>>

\* Promise.all rejects as soon as one entry is rejected; nothing catches it,
\* so the promise of getDiagnosticData is rejected.
RejectSignals ==
  /\ pc = "awaiting"
  /\ \E name \in SignalNames : tasks[name].state = "rejected"
  /\ pc' = "rejected"
  /\ UNCHANGED <<dev, sig, result, tasks>>
  /\ UNCHANGED <<benchVars, otherVars>>

InitAssess ==
  /\ dev \in AssessDevices
  /\ sig = NoSignal
  /\ pc = "start"
  /\ result = NoResult
  /\ tasks = NoTasks
  /\ BenchNotStarted
  /\ OthersNotStarted

NextAssess ==
  \/ StartSignals
  \/ SettleBattery
  \/ SettleStorage
  \/ SettleRefreshRate
  \/ SettleBenchmark
  \/ JoinSignals
  \/ RejectSignals
  \/ Aggregate

SpecAssess == InitAssess /\ [][NextAssess]_vars

-----------------------------------------------------------------------------
(* Properties of the assessment *)

AllSignalsFulfilled ==
  \A name \in SignalNames : tasks[name].state = "fulfilled"

\* C15: getDiagnosticData never rejects, whichever signal fails, and what it
\* resolves with is a complete result with one of the three tiers.
C15_NeverRejects ==
  /\ pc # "rejected"
  /\ Done => result.performanceLevel \in {"LOW", "MEDIUM", "HIGH"}

\* C16: the flags, the score and the tier exist only after all six signals
\* have completed, and they are computed from the six completed values.
C16_AggregatesAfterAllSignals ==
  /\ pc \in {"joined", "done"} =>
       /\ AllSignalsFulfilled
       /\ sig = [name \in SignalNames |-> tasks[name].value]
  /\ result # NoResult =>
       /\ AllSignalsFulfilled
       /\ result = aggregate(dev.nav, [name \in SignalNames |-> tasks[name].value])
  /\ ~AllSignalsFulfilled => result = NoResult

\* The assessment is done on a device whose battery and storage queries threw
\* and whose benchmark ended slow.
C16_Witness ==
  /\ Done
  /\ AllSignalsFulfilled
  /\ dev.battery.state = "throws"
  /\ ~tasks.battery.value.supported
  /\ tasks.slowDeviceResult.value.isSlow
  /\ result.scoreDetails.slowDevice

-----------------------------------------------------------------------------
(* Properties of the core estimate on Macs and on other platforms *)

\* Mac platform and Apple vendor, with a user agent that names Intel/x86 and
\* no ARM indicator.
IntelFlaggedMac ==
  /\ isMac(dev.nav)
  /\ isApple(dev.nav)
  /\ isIntelMac(dev.nav)
  /\ ~isARM(dev.nav)

ClearDoubling == ReportedLogicalCores >= 16 /\ ReportedLogicalCores % 4 = 0

\* C17: an Intel-flagged Mac does not get the Apple-silicon treatment: every
\* logicalCores >= 16 divisible by 4 (16, 20, 24) is halved.
C17_IntelMacHalved ==
  (Done /\ IntelFlaggedMac /\ ClearDoubling) =>
    result.capabilities.cpuCores = ReportedLogicalCores \div 2

\* Not classified Apple silicon and not Windows.
AmbiguousPlatform == ~isAppleSilicon(dev.nav) /\ ~isWindows(dev.nav)

\* C18: on an ambiguous platform an even logicalCores > 2 is halved if it is
\* at least 16 and divisible by 4, and otherwise kept.
C18_AmbiguousConservative ==
  (/\ Done
   /\ AmbiguousPlatform
   /\ ReportedLogicalCores > 2
   /\ ReportedLogicalCores % 2 = 0) =>
    result.capabilities.cpuCores =
      IF ClearDoubling THEN ReportedLogicalCores \div 2 ELSE ReportedLogicalCores

-----------------------------------------------------------------------------
(* Properties of the outlier filter and of the stable duration *)

IsAscending(arr) == \A i \in 1..(Len(arr) - 1) : arr[i] <= arr[i + 1]

\* The sorted samples inside the closed interval [Q1 - 1.5 IQR, Q3 + 1.5 IQR].
SamplesInsideFences == SelectSeq(stats.sorted, InsideFences)

\* C19: with k >= 5 samples sorted ascending, Q1 = sorted[floor(k/4)],
\* Q3 = sorted[floor(3k/4)]; the set used is the samples inside the closed
\* interval [Q1 - 1.5 IQR, Q3 + 1.5 IQR] when there are at least 5 of them,
\* and all the samples otherwise, so it always has at least 5 samples.
C19_FilterKeepsFiveOrReverts ==
  Analysed =>
    /\ Len(stats.sorted) >= 5
    /\ IsAscending(stats.sorted)
    /\ stats.validResults =
         IF Len(SamplesInsideFences) >= 5 THEN SamplesInsideFences
                                          ELSE stats.sorted
    /\ Len(stats.validResults) >= 5

\* Five samples of which only three are inside the fences: all five are used.
C19_Witness ==
  /\ Analysed
  /\ stats.sorted = <<5, 10, 10, 10, 500>>
  /\ Len(stats.filteredResults) = 3
  /\ stats.validResults = stats.sorted

\* CoV < 0.10 of the set used: 100 * n^2 * variance < sum^2.
LowVariance == 100 * UsedSpread < UsedSumSquared

\* The trimmed mean and the median of the set used, as fractions.
UsedLength == Len(stats.validResults)
UsedTrimmedSum ==
  Sum(SubSeq(stats.validResults, (UsedLength \div 4) + 1,
             UsedLength - (UsedLength \div 4)))
UsedTrimmedLength == UsedLength - 2 * (UsedLength \div 4)
UsedMedianTwice ==
  IF UsedLength % 2 = 0
    THEN stats.validResults[UsedLength \div 2]
           + stats.validResults[(UsedLength \div 2) + 1]
    ELSE 2 * stats.validResults[(UsedLength + 1) \div 2]

-----------------------------------------------------------------------------
(* Threshold adaptation *)

\* The multiplier of the variance regime of the set used: 1.75 when the
\* coefficient of variation is above 0.25, 1.5 when it is above 0.15, else 1.
RegimeMultiplier ==
  IF VeryHighVariance THEN Rat(7, 4)
  ELSE IF HighVariance THEN Rat(3, 2)
  ELSE Rat(1, 1)

\* The resolved duration is strictly above the base threshold times m.
DurationExceeds(m) ==
  RatLess(RatTimes(Rat(slowDeviceThreshold, 1), m), ResolvedDuration)

\* C21: the adjusted threshold is the base threshold times 1.75 when
\* CoV > 0.25, times 1.5 when 0.15 < CoV <= 0.25 and times 1 otherwise; the
\* verdict is slow exactly when the stable duration is strictly above it; so
\* a duration that is slow in one regime is slow in every regime of lower
\* variance.
C21_AdaptedThreshold ==
  Analysed =>
    /\ RatEq(stats.adjustedThreshold,
             RatTimes(Rat(slowDeviceThreshold, 1), RegimeMultiplier))
    /\ verdict.isSlow <=> DurationExceeds(RegimeMultiplier)
    /\ \A m \in {Rat(1, 1), Rat(3, 2), Rat(7, 4)} :
         (verdict.isSlow /\ RatLeq(m, RegimeMultiplier)) => DurationExceeds(m)

\* A run of high variance whose duration is above the base threshold and is
\* not slow.
C21_Witness ==
  /\ Analysed
  /\ HighVariance
  /\ DurationExceeds(Rat(1, 1))
  /\ ~verdict.isSlow

-----------------------------------------------------------------------------
(* Order of the rounds of one run *)

\* A step of the run: round 0 starts when the warm-up timer has fired, round
\* i + 1 starts when the pause after round i has elapsed, a round ends in the
\* pause or, for the last of the eleven, in the analysis.
RoundsInSequence ==
  /\ (bpc # "round" /\ bpc' = "round") =>
       \/ bpc = "warmup" /\ round' = 0 /\ results = <<>>
       \/ bpc = "pause" /\ round' = round + 1
  /\ (bpc = "round" /\ bpc' # "round") =>
       \/ round < rounds - 1 /\ bpc' = "pause" /\ round' = round
       \/ round = rounds - 1 /\ bpc' = "measured" /\ round' = rounds
  /\ bpc' = "measured" => bpc = "round"
  /\ bpc' = "pause" => bpc = "round"

\* The round that is executing is one of the eleven, and nothing is measured
\* before the warm-up has completed.
RoundWithinRun ==
  /\ bpc = "round" => round \in 0..(rounds - 1)
  /\ bpc = "pause" => round \in 0..(rounds - 2)
  /\ bpc \in {"idle", "scheduled", "warmup"} => round = 0 /\ results = <<>>
  /\ bpc = "measured" => round = rounds
  /\ Len(results) <= round + 1

\* C22: the warm-up completes before the first round; rounds run one at a
\* time, round i + 1 only after round i has ended and the pause has elapsed;
\* exactly eleven rounds are attempted and no pause follows the last one.
C22_RoundsSequential == [][RoundsInSequence]_vars /\ []RoundWithinRun

\* The eleventh round has just ended: every round left a sample and the
\* analysis is next.
C22_Witness ==
  /\ bpc = "measured"
  /\ round = rounds
  /\ Len(results) = rounds

-----------------------------------------------------------------------------
(* Probes that contain their failures *)

\* The array of Promise.all has been built.
SignalsStarted == pc # "start"

Unavailable(api) == api.state \in {"none", "absent", "throws"}

\* C25: detectGPU, getBatteryInfo and getStorageInfo never throw or reject;
\* a missing API, an unavailable graphics context or an exception during the
\* query gives null for the GPU and { supported: false } with null fields for
\* battery and storage, as an ordinary value.
C25_ProbesNeverReject ==
  SignalsStarted =>
    /\ tasks.gpu.state = "fulfilled"
    /\ Unavailable(dev.gl) => tasks.gpu.value = Null
    /\ tasks.battery.state \in {"pending", "fulfilled"}
    /\ (tasks.battery.state = "fulfilled" /\ Unavailable(dev.battery)) =>
         tasks.battery.value =
           [level |-> Null, charging |-> Null, supported |-> FALSE]
    /\ tasks.storage.state \in {"pending", "fulfilled"}
    /\ (tasks.storage.state = "fulfilled" /\ Unavailable(dev.storage)) =>
         tasks.storage.value =
           [quota |-> Null, usage |-> Null, supported |-> FALSE]

\* Context creation, getBattery and storage.estimate all raised, and the
\* assessment has its six values.
C25_Witness ==
  /\ pc = "joined"
  /\ dev.gl = Throws
  /\ dev.battery = Throws
  /\ dev.storage = Throws
  /\ sig.gpu = Null
  /\ ~sig.battery.supported
  /\ ~sig.storage.supported

-----------------------------------------------------------------------------
(* Invariants of the verdict *)

\* The valid samples of the run.
ValidSamples == {results[i] : i \in 1..Len(results)}

\* C26: a verdict without a duration is not slow; a slow verdict has a
\* duration strictly above CONFIG.slowDeviceThreshold; a duration is
\* positive and lies between the smallest and the largest valid sample.
C26_VerdictInvariants ==
  Resolved =>
    /\ verdict.duration = Null => ~verdict.isSlow
    /\ verdict.isSlow =>
         verdict.duration # Null /\ DurationExceeds(Rat(1, 1))
    /\ verdict.duration # Null =>
         /\ RatLess(Rat(0, 1), ResolvedDuration)
         /\ \E smallest \in ValidSamples :
              /\ \A r \in ValidSamples : smallest <= r
              /\ RatLeq(Rat(smallest, 1), ResolvedDuration)
         /\ \E largest \in ValidSamples :
              /\ \A r \in ValidSamples : r <= largest
              /\ RatLeq(ResolvedDuration, Rat(largest, 1))

\* A slow verdict in the regime of the highest variance, where the threshold
\* was raised.
C26_Witness ==
  /\ Analysed
  /\ VeryHighVariance
  /\ verdict.isSlow
  /\ RatLess(Rat(slowDeviceThreshold, 1), stats.adjustedThreshold)

-----------------------------------------------------------------------------
(* Sizes of the filtered and of the trimmed set *)

SortedLength == Len(stats.sorted)

\* The revert branch was taken: fewer than 5 samples passed the filter.
Reverted == Len(stats.filteredResults) < minValidResults

\* C27: of 7 to 11 sorted samples the filter keeps at least 5, every sample
\* at an index from floor(n * 0.25) to floor(n * 0.75) among them, so the
\* unfiltered set is used only for 5 or 6 samples; and the trimmed set, which
\* drops floor(n * 0.25) values at each end, is never empty.
C27_FilterAndTrimSizes ==
  Analysed =>
    /\ SortedLength >= 7 =>
         /\ Len(stats.filteredResults) >= 5
         /\ \A i \in (SortedLength \div 4)..((3 * SortedLength) \div 4) :
              InsideFences(At(stats.sorted, i))
    /\ Reverted => SortedLength \in {5, 6}
    /\ Reverted <=> stats.validResults # stats.filteredResults
    /\ UsedLength \in 5..rounds
    /\ stats.trimmedMean.den = UsedLength - 2 * (UsedLength \div 4)
    /\ stats.trimmedMean.den >= 1

\* Six samples, the smallest and the largest outside the fences: four pass
\* and all six are used.
C27_Witness ==
  /\ Analysed
  /\ SortedLength = 6
  /\ Len(stats.filteredResults) = 4
  /\ stats.validResults = stats.sorted

-----------------------------------------------------------------------------
(* Invariants of the assessment result *)

\* C28: when the GPU probe returned nothing, weakGPU is true and the tier is
\* not HIGH; when the tier is HIGH, lowCPUCores, lowMemory and weakGPU are
\* false, deviceMemory is known, and totalScore is 0 or 1, 1 exactly when
\* slowDevice is true.
C28_TierInvariants ==
  Done =>
    /\ IsNull(sig.gpu) =>
         /\ result.scoreDetails.weakGPU
         /\ result.hasWeakGPU
         /\ result.performanceLevel # "HIGH"
    /\ result.performanceLevel = "HIGH" =>
         /\ ~result.scoreDetails.lowCPUCores
         /\ ~result.scoreDetails.lowMemory
         /\ ~result.scoreDetails.weakGPU
         /\ ~IsNull(result.capabilities.deviceMemory)
         /\ result.scoreDetails.totalScore \in {0, 1}
         /\ result.scoreDetails.totalScore = 1 <=> result.scoreDetails.slowDevice

\* A device rated HIGH whose only point is the slow benchmark.
C28_Witness ==
  /\ Done
  /\ result.performanceLevel = "HIGH"
  /\ result.scoreDetails.slowDevice
  /\ result.scoreDetails.totalScore = 1

-----------------------------------------------------------------------------
(* estimateRefreshRate as a process *)

\* elapsed >= 500
samplingWindow == 500

\* Milliseconds between two readings of performance.now() in consecutive
\* animation frames: displays of 240, 144, 60 and 30 Hz, and a frame
\* delayed past the whole window.
FrameGaps == {4, 7, 16, 33, 600}

\* Math.round((frameCount * 1000) / elapsed)
roundedRate(frameCount, elapsed) ==
  (2 * frameCount * 1000 + elapsed) \div (2 * elapsed)

\* Lines 67-69 and 80: the executor sets frameCount and startTime and
\* requests the first frame.
CallEstimateRefreshRate ==
  /\ frame.pc = "idle"
  /\ frame' = [pc |-> "waiting", frameCount |-> 0, elapsed |-> 0, value |-> 0]
  /\ UNCHANGED <<assessVars, benchVars, runs, app>>

\* Lines 71-79: checkFrame runs in an animation frame, gap milliseconds
\* after the previous reading of the clock; it resolves once 500 ms have
\* passed since startTime and requests another frame otherwise.
checkFrame_NoRerequest(gap) ==
  LET frameCount == frame.frameCount + 1
      elapsed == frame.elapsed + gap
  IN IF elapsed >= samplingWindow
       THEN frame' = [pc |-> "resolved", frameCount |-> frameCount,
                      elapsed |-> elapsed,
                      value |-> roundedRate(frameCount, elapsed)]
       ELSE frame' = [frame EXCEPT !.pc = "returned",
                                   !.frameCount = frameCount,
                                   !.elapsed = elapsed]
checkFrame(gap) ==
  LET frameCount == frame.frameCount + 1
      elapsed == frame.elapsed + gap
  IN IF elapsed >= samplingWindow
       THEN frame' = [pc |-> "resolved", frameCount |-> frameCount,
                      elapsed |-> elapsed,
                      value |-> roundedRate(frameCount, elapsed)]
       ELSE frame' = [frame EXCEPT !.pc = "waiting",
                                   !.frameCount = frameCount,
                                   !.elapsed = elapsed]

\* The browser runs the requested callback in the next animation frame.
AnimationFrame ==
  /\ frame.pc = "waiting"
  /\ \E gap \in FrameGaps : checkFrame(gap)
  /\ UNCHANGED <<assessVars, benchVars, runs, app>>

InitRefresh ==
  /\ AssessNotStarted
  /\ BenchNotStarted
  /\ OthersNotStarted

NextRefresh ==
  \/ CallEstimateRefreshRate
  \/ AnimationFrame

\* A requested animation frame is delivered.
FairSpecRefresh == InitRefresh /\ [][NextRefresh]_vars /\ WF_vars(NextRefresh)

\* The promise of estimateRefreshRate is resolved.
RateResolved == frame.pc = "resolved"

\* The value is frameCount * 1000 / elapsed rounded to the nearest integer.
RateFromFrames ==
  /\ frame.frameCount >= 1
  /\ 2 * frame.value * frame.elapsed <= 2000 * frame.frameCount + frame.elapsed
  /\ 2000 * frame.frameCount + frame.elapsed < 2 * (frame.value + 1) * frame.elapsed

-----------------------------------------------------------------------------
(* Two calls of runCPUStatsBenchmark that overlap *)

\* Two assessments are started; each call of runCPUStatsBenchmark has its
\* own promise and, once runMultipleTests runs, its own results array.
RunIds == {1, 2}

\* What a valid round of one run measures, in milliseconds: a run measures
\* the same duration in every round that does not throw.
RunSamples == {5, 16}

NotCalled ==
  [pc |-> "idle", round |-> 0, sample |-> 0, results |-> <<>>,
   verdict |-> NoVerdict]

\* Lines 275-281: the executor schedules runMultipleTests.
CallRun(r) ==
  /\ runs[r].pc = "idle"
  /\ \E sample \in RunSamples :
       runs' = [runs EXCEPT ![r].pc = "scheduled", ![r].sample = sample]
  /\ UNCHANGED <<assessVars, benchVars, frame, app>>

\* Lines 179-186: runMultipleTests starts: warmupCPU sets its timer; rounds,
\* results and minValidResults are locals of this call.
RunStarts(r) ==
  /\ runs[r].pc = "scheduled"
  /\ runs' = [runs EXCEPT ![r].pc = "warmup"]
  /\ UNCHANGED <<assessVars, benchVars, frame, app>>

\* The 50 ms timer of warmupCPU fires: const results = [], i = 0.
RunWarmupEnds(r) ==
  /\ runs[r].pc = "warmup"
  /\ runs' = [runs EXCEPT ![r].pc = "round", ![r].round = 0,
                          ![r].results = <<>>]
  /\ UNCHANGED <<assessVars, benchVars, frame, app>>

\* results.push(duration) of run r.
push_SharedArray(r, d) ==
  [o \in RunIds |-> [runs[o] EXCEPT !.results = Append(@, d)]]
push(r, d) == [runs EXCEPT ![r].results = Append(@, d)]

\* Lines 189-198: one round of run r.
RunRoundOf(r) ==
  /\ runs[r].pc = "round"
  /\ \E d \in {Null, Some(runs[r].sample)} :
       LET pushed == IF isValidSample(d) THEN push(r, Val(d)) ELSE runs
       IN runs' = [pushed EXCEPT
                     ![r].pc = IF runs[r].round < rounds - 1 THEN "pause"
                                                             ELSE "measured",
                     ![r].round = IF runs[r].round < rounds - 1
                                    THEN runs[r].round
                                    ELSE runs[r].round + 1]
  /\ UNCHANGED <<assessVars, benchVars, frame, app>>

\* The 100 ms timer between two rounds of run r fires.
RunPauseEnds(r) ==
  /\ runs[r].pc = "pause"
  /\ runs' = [runs EXCEPT ![r].pc = "round", ![r].round = runs[r].round + 1]
  /\ UNCHANGED <<assessVars, benchVars, frame, app>>

\* Lines 200-268: run r counts, sorts and analyses its results and resolves
\* its promise.
RunAnalyse(r) ==
  /\ runs[r].pc = "measured"
  /\ IF tooFewResults(runs[r].results)
       THEN runs' = [runs EXCEPT ![r].pc = "returned",
                                 ![r].verdict = InsufficientResult]
       ELSE LET sorted == sortAscending(runs[r].results)
                analysed == analysis(sorted)
            IN runs' = [runs EXCEPT
                          ![r].pc = "returned",
                          ![r].results = sorted,
                          ![r].verdict =
                            BenchmarkResult(analysed.isSlow,
                                            Some(analysed.stableDuration))]
  /\ UNCHANGED <<assessVars, benchVars, frame, app>>

InitRuns ==
  /\ AssessNotStarted
  /\ BenchNotStarted
  /\ frame = NoSampling
  /\ app = Unmounted
  /\ runs = [r \in RunIds |-> NotCalled]

NextRuns ==
  \E r \in RunIds :
    \/ CallRun(r)
    \/ RunStarts(r)
    \/ RunWarmupEnds(r)
    \/ RunRoundOf(r)
    \/ RunPauseEnds(r)
    \/ RunAnalyse(r)

SpecRuns == InitRuns /\ [][NextRuns]_vars

\* A step of one run leaves the other run as it is.
OneRunPerStep ==
  \A r \in RunIds :
    runs'[r] # runs[r] => \A o \in RunIds \ {r} : runs'[o] = runs[o]

\* The results of run r hold only what its own rounds measured.
OwnSamplesOnly(r) ==
  /\ Len(runs[r].results) <= runs[r].round + 1
  /\ \A i \in 1..Len(runs[r].results) : runs[r].results[i] = runs[r].sample

\* The verdict of run r is the one of its own samples: none with fewer than
\* 5, else its own duration compared with CONFIG.slowDeviceThreshold.
OwnVerdict(r) ==
  runs[r].verdict # NoVerdict =>
    IF Len(runs[r].results) < minValidResults
      THEN runs[r].verdict = InsufficientResult
      ELSE /\ RatEq(Val(runs[r].verdict.duration), Rat(runs[r].sample, 1))
           /\ runs[r].verdict.isSlow <=> runs[r].sample > slowDeviceThreshold

\* C24: two runs that overlap are independent: each verdict is computed from
\* the samples of that run's own rounds, each run resolves with its own
\* result, and no step of one run changes the other.
C24_RunsIndependent ==
  /\ [][OneRunPerStep]_vars
  /\ [](\A r \in RunIds : OwnSamplesOnly(r) /\ OwnVerdict(r))

\* Run 1 has resolved slow from its own eleven samples while run 2, started
\* before that, is in its rounds with samples of its own.
C24_Witness ==
  /\ runs[1].verdict # NoVerdict
  /\ runs[1].verdict.isSlow
  /\ Len(runs[1].results) = rounds
  /\ runs[2].pc = "pause"
  /\ runs[2].sample = 5
  /\ Len(runs[2].results) = 6

-----------------------------------------------------------------------------
(* The App component: refreshDiagnostics and the auto-refresh effect *)

\* Refreshes started in one behaviour.
MaxRefreshes == 4

\* The environments the App runs in: with requestAnimationFrame, where
\* getDiagnosticData resolves, and without, where it rejects.
AppDevices ==
  {mkDev(mkNav(LinuxFirefox, Some(8), Some(32)), DefaultGL, Absent, Absent,
         Absent, 89, [isSlow |-> FALSE, duration |-> Null])
     @@ [requestAnimationFrame |-> raf] : raf \in BOOLEAN}

\* App.tsx 229-231: refreshDiagnostics up to its await: setLoading(true) and
\* the call of getDiagnosticData.
refreshDiagnostics(a) ==
  [a EXCEPT !.loading = TRUE,
            !.started = a.started + 1,
            !.inFlight = a.inFlight \cup {a.started + 1}]

\* App.tsx 241-270: the render after an update of loading or
\* autoRefreshEnabled runs the cleanup of the auto-refresh effect, which
\* clears both intervals, and the effect, which sets them unless auto-refresh
\* is off or loading is true; the last effect resets the countdown when
\* loading is false and auto-refresh is on.
commit_WithoutCleanup(a) ==
  [a EXCEPT !.interval = a.interval \/ (a.autoRefreshEnabled /\ ~a.loading),
            !.countdown = IF ~a.loading /\ a.autoRefreshEnabled
                            THEN countdownStart ELSE a.countdown]
commit(a) ==
  [a EXCEPT !.interval = a.autoRefreshEnabled /\ ~a.loading,
            !.countdown = IF ~a.loading /\ a.autoRefreshEnabled
                            THEN countdownStart ELSE a.countdown]

\* App.tsx 236-238: the first render and its effects.
Mount ==
  /\ ~app.mounted
  /\ app' = commit(refreshDiagnostics([app EXCEPT !.mounted = TRUE]))
  /\ UNCHANGED <<assessVars, benchVars, frame, runs>>

\* App.tsx 231-233: getDiagnosticData of refresh r resolves:
\* setResult(data), setLoading(false).
DiagnosticsResolve(r) ==
  /\ r \in app.inFlight
  /\ dev.requestAnimationFrame
  /\ app' = commit([app EXCEPT !.result = r, !.loading = FALSE,
                               !.inFlight = app.inFlight \ {r}])
  /\ UNCHANGED <<assessVars, benchVars, frame, runs>>

\* App.tsx 231: getDiagnosticData of refresh r rejects: the await throws,
\* refreshDiagnostics ends there and nothing catches the rejection.
DiagnosticsReject(r) ==
  /\ r \in app.inFlight
  /\ ~dev.requestAnimationFrame
  /\ app' = commit([app EXCEPT !.inFlight = app.inFlight \ {r}])
  /\ UNCHANGED <<assessVars, benchVars, frame, runs>>

DiagnosticsSettle ==
  \E r \in 1..MaxRefreshes : DiagnosticsResolve(r) \/ DiagnosticsReject(r)

\* App.tsx 244-247: the 10 s interval fires: refreshDiagnostics() and
\* setCountdown(10).
IntervalFires ==
  /\ app.interval
  /\ app.started < MaxRefreshes
  /\ app' = commit([refreshDiagnostics(app) EXCEPT !.countdown = countdownStart])
  /\ UNCHANGED <<assessVars, benchVars, frame, runs>>

\* App.tsx 250-257: the 1 s interval fires; neither loading nor
\* autoRefreshEnabled changes, so no effect runs again.
CountdownFires ==
  /\ app.interval
  /\ app' = [app EXCEPT !.countdown = IF app.countdown <= 1
                                        THEN countdownStart
                                        ELSE app.countdown - 1]
  /\ UNCHANGED <<assessVars, benchVars, frame, runs>>

\* App.tsx 418-420: a click on the refresh button, which is disabled while
\* loading.
ClickRefresh ==
  /\ app.mounted
  /\ ~app.loading
  /\ app.started < MaxRefreshes
  /\ app' = commit(refreshDiagnostics(app))
  /\ UNCHANGED <<assessVars, benchVars, frame, runs>>

\* App.tsx 431-437: a click on the auto-refresh button; the loading screen
\* (270) has no buttons.
ToggleAutoRefresh ==
  /\ app.mounted
  /\ ~(app.loading /\ app.result = 0)
  /\ app' = commit([app EXCEPT !.autoRefreshEnabled = ~app.autoRefreshEnabled])
  /\ UNCHANGED <<assessVars, benchVars, frame, runs>>

InitApp ==
  /\ dev \in AppDevices
  /\ sig = NoSignal
  /\ pc = "start"
  /\ result = NoResult
  /\ tasks = NoTasks
  /\ BenchNotStarted
  /\ frame = NoSampling
  /\ runs = <<>>
  /\ app = Unmounted

NextApp ==
  \/ Mount
  \/ DiagnosticsSettle
  \/ IntervalFires
  \/ CountdownFires
  \/ ClickRefresh
  \/ ToggleAutoRefresh

SpecApp == InitApp /\ [][NextApp]_vars

\* The first render happens, a call of getDiagnosticData settles, and an
\* interval that stays set fires.
FairSpecApp ==
  /\ InitApp
  /\ [][NextApp]_vars
  /\ WF_vars(Mount)
  /\ WF_vars(DiagnosticsSettle)
  /\ WF_vars(IntervalFires)

\* The refresh button is disabled.
ButtonDisabled == app.loading

\* No refresh starts while another has not settled.
StartsOnlyWhenNoneInFlight ==
  app'.started > app.started => app.inFlight = {}

C30_RefreshCompletes ==
  /\ \A r \in 1..MaxRefreshes :
       [](r \in app.inFlight => <>(~app.loading /\ app.result = r))
  /\ [](app.loading => <>~app.loading)
  /\ []((app.mounted /\ ~app.loading /\ app.autoRefreshEnabled
           /\ app.started < MaxRefreshes)
          => <>(app.loading \/ ~app.autoRefreshEnabled))

====
